---- MODULE Spec2Model ----
(***************************************************************************)
(* Model of app.py: the Flask endpoint POST /api/submit-data (submit_data)  *)
(* and the trial_result table (TrialResult) it writes through the           *)
(* Flask-SQLAlchemy session on a SQLite database.                           *)
(*                                                                         *)
(* Each handler invocation runs on a worker thread.  db.session is a        *)
(* scoped session: one session (and one database connection) per worker.    *)
(* The steps of one invocation are the statements of submit_data; the       *)
(* steps of different workers interleave freely.                            *)
(*                                                                         *)
(* db.session.add touches no table; db.session.commit() INSERTs the pending *)
(* objects in one transaction, which holds SQLite's write lock and whose    *)
(* rows no other connection sees, and then COMMITs it.  The store may fail  *)
(* (database locked or unreachable) at any INSERT and at the COMMIT.        *)
(* db.session.rollback() itself is taken not to fail.                       *)
(***************************************************************************)
EXTENDS Integers, Sequences, FiniteSets, TLC

\* ---------------------------------------------------------------- bounds
MaxTrials == 2
MaxRequests == 2
NumWorkers == 2

Workers == 1..NumWorkers

\* ------------------------------------------------------------ JSON values
\* A JSON scalar as Python sees it after request.get_json().  t is the type
\* tag; n carries booleans (0/1), ints, and floats in thousandths
\* (real 532 is 0.532); s carries strings.  "absent" marks a key that the
\* object does not have.
V(t, n, s) == [t |-> t, n |-> n, s |-> s]
Absent == V("absent", 0, "")
JNull == V("null", 0, "")
JBool(b) == V("bool", IF b THEN 1 ELSE 0, "")
JInt(n) == V("int", n, "")
JReal(n) == V("real", n, "")
JStr(s) == V("str", 0, s)
Error(s) == V("error", 0, s)

IsError(v) == v.t = "error"

\* Python truthiness of a scalar, as used by `not participant_id`.
Truthy(v) ==
    CASE v.t \in {"absent", "null"} -> FALSE
      [] v.t \in {"bool", "int", "real"} -> v.n # 0
      [] v.t = "str" -> v.s # ""
      [] OTHER -> TRUE

\* ----------------------------------------------------------- trial objects
Fields == {"task_type", "stimulus_word", "stimulus_color", "response_time",
           "key_press", "was_correct", "avg_blink_rate"}
RequiredFields == {"task_type", "stimulus_word", "stimulus_color"}
OptionalFields == Fields \ RequiredFields

\* An element of the trials sequence: a JSON object (obj = TRUE) with some of
\* the seven keys, or any other JSON value (obj = FALSE), which has no .get.
Trial(tt, sw, sc, rt, kp, wc, br) ==
    [obj |-> TRUE,
     f |-> [task_type |-> tt, stimulus_word |-> sw, stimulus_color |-> sc,
            response_time |-> rt, key_press |-> kp, was_correct |-> wc,
            avg_blink_rate |-> br]]

NotObj ==
    [obj |-> FALSE,
     f |-> [task_type |-> Absent, stimulus_word |-> Absent,
            stimulus_color |-> Absent, response_time |-> Absent,
            key_press |-> Absent, was_correct |-> Absent,
            avg_blink_rate |-> Absent]]

\* The scenario of the interface description: every field present, every value
\* of the declared type.
Full ==
    Trial(JStr("stroop_congruent"), JStr("RED"), JStr("red"),
          JReal(532), JStr("r"), JBool(TRUE), JReal(14200))
\* Only the required fields.
RequiredOnly ==
    Trial(JStr("stroop_incongruent"), JStr("BLUE"), JStr("red"),
          Absent, Absent, Absent, Absent)
\* A required field is missing.
NoTaskType ==
    Trial(Absent, JStr("RED"), JStr("red"),
          JReal(610), JStr("g"), JBool(FALSE), JReal(9500))
\* Every field present and of the declared type, the floats sent as JSON
\* integers.
Whole ==
    Trial(JStr("stroop_incongruent"), JStr("BLUE"), JStr("green"),
          JInt(1), JStr("g"), JBool(FALSE), JInt(14))
Elements == {Full, RequiredOnly, NoTaskType, Whole, NotObj}

\* dict.get(key): the value, or None when the key is absent.
Get(d, k) == IF d[k].t = "absent" THEN JNull ELSE d[k]

\* ------------------------------------------------------------ the request
\* The value of the "trials" key: absent, a list of elements, a number, or a
\* string (iterating a string yields strings, which have no .get).
TAbsent == [t |-> "absent", n |-> 0, items |-> << >>]
TList(items) == [t |-> "list", n |-> 0, items |-> items]
TInt(n) == [t |-> "int", n |-> n, items |-> << >>]
TStr(len) == [t |-> "str", n |-> 0, items |-> [i \in 1..len |-> NotObj]]

\* The lists of trials: up to MaxTrials elements, any element of Elements
\* last, after elements that are all the full trial.
TrialLists ==
    {<< >>} \cup
    {[i \in 1..m |-> IF i < m THEN Full ELSE e] : m \in 1..MaxTrials, e \in Elements}

TrialsValues ==
    {TAbsent, TInt(0), TInt(5), TStr(0), TStr(1)} \cup {TList(s) : s \in TrialLists}

TruthyTrialsNonEmpty(tv) ==
    CASE tv.t = "absent" -> FALSE
      [] tv.t = "int" -> tv.n # 0
      [] OTHER -> TRUE

TruthyTrials(tv) ==
    CASE tv.t = "absent" -> FALSE
      [] tv.t = "int" -> tv.n # 0
      [] OTHER -> Len(tv.items) > 0

Iterable(tv) == tv.t \in {"list", "str"}

ParticipantIds == {Absent, JStr(""), JStr("P1"), JStr("P2")}

\* The request body: shape "object" is a JSON object; "nonobject" is JSON
\* that is not an object (null, an array, a number); "notjson" cannot be
\* parsed, so request.get_json() raises.
Body(shape, pid, tv) == [shape |-> shape, participant_id |-> pid, trials |-> tv]
NoBody == Body("none", Absent, TAbsent)

\* The bodies of the concurrent runs: two batches that commit, for different
\* participants, one that fails in the flush, one that fails in the loop and
\* one that is refused.
ConcBodies ==
    {Body("object", JStr("P1"), TList(<<Full, RequiredOnly>>)),
     Body("object", JStr("P2"), TList(<<Whole>>)),
     Body("object", JStr("P1"), TList(<<Full, NoTaskType>>)),
     Body("object", JStr("P2"), TList(<<Full, NotObj>>)),
     Body("object", JStr("P2"), TList(<< >>))}

\* The bodies of the runs that serve one request at a time.
Bodies ==
    {Body("notjson", Absent, TAbsent), Body("nonobject", Absent, TAbsent)}
        \cup {Body("object", p, tv) : p \in ParticipantIds, tv \in TrialsValues}

\* ------------------------------------------------- the trial_result table
Columns == {"participant_id"} \cup Fields

\* The column types declared by TrialResult.
ColumnType ==
    [participant_id |-> "String", task_type |-> "String",
     stimulus_word |-> "String", stimulus_color |-> "String",
     response_time |-> "Float", key_press |-> "String",
     was_correct |-> "Boolean", avg_blink_rate |-> "Float"]

\* The columns declared nullable=False.
AllNullable == {}

NotNullColumns ==
    {"participant_id", "task_type", "stimulus_word", "stimulus_color"}

\* The text SQLite gives a float stored in a TEXT column (n in thousandths).
FracText(k) ==
    IF k = 0 THEN "0"
    ELSE IF k % 100 = 0 THEN ToString(k \div 100)
    ELSE IF k % 10 = 0 THEN
        (IF k < 100 THEN "0" ELSE "") \o ToString(k \div 10)
    ELSE (IF k < 10 THEN "00" ELSE IF k < 100 THEN "0" ELSE "") \o ToString(k)

RealText(n) == ToString(n \div 1000) \o "." \o FracText(n % 1000)

\* What a db.String column holds after an INSERT of v and gives back on
\* read: the bound value under SQLite's TEXT affinity (numbers become text).
StoreString(v) ==
    CASE v.t = "null" -> JNull
      [] v.t = "str" -> v
      [] v.t \in {"int", "bool"} -> JStr(ToString(v.n))
      [] v.t = "real" -> JStr(RealText(v.n))
      [] OTHER -> Error("InterfaceError")

\* A db.Float column: the bind converts with float(), which raises on text
\* that is not a numeral (none of the strings of this model is one).
StoreFloat(v) ==
    CASE v.t = "null" -> JNull
      [] v.t = "real" -> v
      [] v.t \in {"int", "bool"} -> JReal(1000 * v.n)
      [] OTHER -> Error("StatementError")

\* A db.Boolean column: the bind accepts None, True, False and what equals
\* them (0, 1, 0.0, 1.0), stores 0/1, and the read gives a bool back.
StoreBoolean(v) ==
    CASE v.t = "null" -> JNull
      [] v.t = "bool" -> v
      [] v.t = "int" /\ v.n \in {0, 1} -> V("bool", v.n, "")
      [] v.t = "real" /\ v.n \in {0, 1000} -> V("bool", v.n \div 1000, "")
      [] OTHER -> Error("StatementError")

StoreValue(col, v) ==
    CASE ColumnType[col] = "String" -> StoreString(v)
      [] ColumnType[col] = "Float" -> StoreFloat(v)
      [] ColumnType[col] = "Boolean" -> StoreBoolean(v)

\* TrialResult(participant_id=..., task_type=trial_data.get('task_type'), ...):
\* the pending object, not yet in the table (its id is unset).
NewTrialSwapped(pid, d) ==
    [id |-> JNull, participant_id |-> pid,
     task_type |-> Get(d, "task_type"),
     stimulus_word |-> Get(d, "stimulus_word"),
     stimulus_color |-> Get(d, "stimulus_color"),
     response_time |-> Get(d, "avg_blink_rate"),
     key_press |-> Get(d, "key_press"),
     was_correct |-> Get(d, "was_correct"),
     avg_blink_rate |-> Get(d, "response_time")]

NewTrial(pid, d) ==
    [id |-> JNull, participant_id |-> pid,
     task_type |-> Get(d, "task_type"),
     stimulus_word |-> Get(d, "stimulus_word"),
     stimulus_color |-> Get(d, "stimulus_color"),
     response_time |-> Get(d, "response_time"),
     key_press |-> Get(d, "key_press"),
     was_correct |-> Get(d, "was_correct"),
     avg_blink_rate |-> Get(d, "avg_blink_rate")]

\* The error of INSERTing the pending object o, "" when there is none.
InsertError(o) ==
    IF \E c \in Columns : IsError(StoreValue(c, o[c])) THEN "StatementError"
    ELSE IF \E c \in NotNullColumns : o[c].t = "null" THEN "IntegrityError"
    ELSE ""

\* The row the table holds after INSERTing o under the primary key id.
InsertedRow(o, id) ==
    [c \in Columns \cup {"id"} |->
        IF c = "id" THEN JInt(id) ELSE StoreValue(c, o[c])]

\* --------------------------------------------------------------- the state
VARIABLES
    store,      \* the committed rows of trial_result, in insertion order
    owner,      \* owner[i]: the number of the request that committed store[i]
    lock,       \* the session key holding SQLite's write lock, 0 when free
    txn,        \* txn[k]: rows INSERTed by session k's open transaction
    session,    \* session[k]: the pending objects of session k (db.session)
    pc,         \* pc[w]: where worker w is in submit_data
    body,       \* body[w]: the request worker w is handling
    idx,        \* idx[w]: the position of the for loop in trials
    exc,        \* exc[w]: the exception raised in the try block
    resp,       \* resp[w]: the response returned
    reqno,      \* reqno[w]: the number of the request worker w is handling
    status,     \* status[r]: the status request r ended with, 0 while it runs
    faulted     \* faulted[w]: the store failed during worker w's request

vars == <<store, owner, lock, txn, session, pc, body, idx, exc, resp, reqno,
          status, faulted>>

Response(st, saved, msg) == [status |-> st, trials_saved |-> saved, message |-> msg]
NoResponse == Response(0, 0, "")

MissingMessage == "Missing participant_id or trials data"

\* db.session is scoped: each worker gets its own session.
SharedSessionKey(w) == 1

SessionKey(w) == w

\* `except Exception` catches every exception the try block raises.
CaughtStoreErrorsOnly(e) ==
    e \in {"IntegrityError", "StatementError", "OperationalError"}

Caught(e) == TRUE

\* `if not participant_id or not trials`
MissingBoth(b) == ~Truthy(b.participant_id) /\ ~TruthyTrials(b.trials)

Missing(b) == ~Truthy(b.participant_id) \/ ~TruthyTrials(b.trials)

\* len(trials)
TrialsSavedLast(b) == IF b.trials.t = "int" THEN 0 ELSE Len(b.trials.items) - 1

TrialsSaved(b) == IF b.trials.t = "int" THEN 0 ELSE Len(b.trials.items)

\* The table after COMMIT of the transaction's rows t, and after it is
\* rolled back.
ReplaceRows(st, t) == t

CommitRows(st, t) == st \o t

KeepRows(st, t) == st \o t

RollbackRows(st, t) == st

\* db.session.rollback(): the pending objects are expunged.
KeepPending(s) == s

RollbackPending(s) == << >>

Init ==
    /\ store = << >>
    /\ owner = << >>
    /\ lock = 0
    /\ txn = [k \in Workers |-> << >>]
    /\ session = [k \in Workers |-> << >>]
    /\ pc = [w \in Workers |-> "idle"]
    /\ body = [w \in Workers |-> NoBody]
    /\ idx = [w \in Workers |-> 0]
    /\ exc = [w \in Workers |-> ""]
    /\ resp = [w \in Workers |-> NoResponse]
    /\ reqno = [w \in Workers |-> 0]
    /\ status = << >>
    /\ faulted = [w \in Workers |-> FALSE]

\* An exception e raised inside the try block of worker w.
Raise(w, e) ==
    /\ exc' = [exc EXCEPT ![w] = e]
    /\ IF Caught(e)
       THEN /\ pc' = [pc EXCEPT ![w] = "except"]
            /\ UNCHANGED <<resp, status>>
       ELSE /\ pc' = [pc EXCEPT ![w] = "responded"]
            /\ resp' = [resp EXCEPT ![w] = Response(0, 0, e)]
            /\ status' = [status EXCEPT ![reqno[w]] = -1]

\* Worker w returns the response r.
Return(w, r) ==
    /\ pc' = [pc EXCEPT ![w] = "responded"]
    /\ resp' = [resp EXCEPT ![w] = r]
    /\ status' = [status EXCEPT ![reqno[w]] = r.status]

\* Lines 51-58: a request with body b arrives at worker w; get_json, the two
\* data.get calls and the check for missing fields.
GetJsonAndValidate(w, b) ==
    /\ pc[w] = "idle"
    /\ Len(status) < MaxRequests
    /\ body' = [body EXCEPT ![w] = b]
    /\ reqno' = [reqno EXCEPT ![w] = Len(status) + 1]
    /\ idx' = [idx EXCEPT ![w] = 1]
    /\ LET started == Append(status, 0)
           r == Len(status) + 1
       IN  CASE b.shape = "notjson" ->
                  /\ exc' = [exc EXCEPT ![w] = "BadRequest"]
                  /\ pc' = [pc EXCEPT ![w] =
                               IF Caught("BadRequest") THEN "except" ELSE "responded"]
                  /\ resp' = IF Caught("BadRequest") THEN resp
                             ELSE [resp EXCEPT ![w] = Response(0, 0, "BadRequest")]
                  /\ status' = IF Caught("BadRequest") THEN started
                               ELSE [started EXCEPT ![r] = -1]
              [] b.shape = "nonobject" ->
                  /\ exc' = [exc EXCEPT ![w] = "AttributeError"]
                  /\ pc' = [pc EXCEPT ![w] =
                               IF Caught("AttributeError") THEN "except" ELSE "responded"]
                  /\ resp' = IF Caught("AttributeError") THEN resp
                             ELSE [resp EXCEPT ![w] = Response(0, 0, "AttributeError")]
                  /\ status' = IF Caught("AttributeError") THEN started
                               ELSE [started EXCEPT ![r] = -1]
              [] OTHER ->
                  IF Missing(b)
                  THEN /\ pc' = [pc EXCEPT ![w] = "responded"]
                       /\ resp' = [resp EXCEPT ![w] = Response(400, 0, MissingMessage)]
                       /\ status' = [started EXCEPT ![r] = 400]
                       /\ UNCHANGED exc
                  ELSE /\ pc' = [pc EXCEPT ![w] = "loop"]
                       /\ status' = started
                       /\ UNCHANGED <<exc, resp>>
    /\ UNCHANGED <<store, owner, lock, txn, session, faulted>>

\* Lines 61-74: one step of `for trial_data in trials`: the failure to
\* iterate a value that is not iterable, the end of the loop, or one
\* iteration, which builds the row of the next element and adds it to the
\* session.
LoopBody(w) ==
    /\ pc[w] = "loop"
    /\ LET tv == body[w].trials
           k == SessionKey(w)
       IN  IF ~Iterable(tv)
           THEN Raise(w, "TypeError") /\ UNCHANGED <<session, idx>>
           ELSE IF idx[w] > Len(tv.items)
           THEN /\ pc' = [pc EXCEPT ![w] = "commit"]
                /\ UNCHANGED <<session, idx, exc, resp, status>>
           ELSE IF ~tv.items[idx[w]].obj
           THEN Raise(w, "AttributeError") /\ UNCHANGED <<session, idx>>
           ELSE /\ session' = [session EXCEPT ![k] =
                       Append(@, NewTrial(body[w].participant_id, tv.items[idx[w]].f))]
                /\ idx' = [idx EXCEPT ![w] = @ + 1]
                /\ UNCHANGED <<pc, exc, resp, status>>
    /\ UNCHANGED <<store, owner, lock, txn, body, reqno, faulted>>

\* Line 77, the flush inside db.session.commit(): the next pending object is
\* INSERTed in the session's transaction, which takes the write lock.  A
\* failed INSERT, or a store fault, rolls the transaction back and raises.
FlushRow(w) ==
    /\ pc[w] = "commit"
    /\ LET k == SessionKey(w)
           j == Len(txn[k]) + 1
       IN  /\ j <= Len(session[k])
           /\ \E fault \in BOOLEAN :
                IF fault \/ InsertError(session[k][j]) # ""
                THEN /\ Raise(w, IF fault THEN "OperationalError"
                                 ELSE InsertError(session[k][j]))
                     /\ store' = RollbackRows(store, txn[k])
                     /\ owner' = owner \o
                            [i \in 1..(Len(RollbackRows(store, txn[k])) - Len(store))
                                |-> reqno[w]]
                     /\ txn' = [txn EXCEPT ![k] = << >>]
                     /\ lock' = IF lock = k THEN 0 ELSE lock
                     /\ faulted' = [faulted EXCEPT ![w] = @ \/ fault]
                ELSE /\ lock \in {0, k}
                     /\ lock' = k
                     /\ txn' = [txn EXCEPT ![k] =
                            Append(@, InsertedRow(session[k][j],
                                                  Len(store) + Len(txn[k]) + 1))]
                     /\ UNCHANGED <<store, owner, faulted, exc, pc, resp, status>>
    /\ UNCHANGED <<session, body, idx, reqno>>

\* Line 77, the COMMIT inside db.session.commit(): the transaction's rows
\* become visible and the session has nothing pending; or a store fault
\* rolls the transaction back and raises.
CommitTxn(w) ==
    /\ pc[w] = "commit"
    /\ LET k == SessionKey(w)
       IN  /\ Len(txn[k]) >= Len(session[k])
           /\ \E fault \in BOOLEAN :
                IF fault
                THEN /\ Raise(w, "OperationalError")
                     /\ store' = RollbackRows(store, txn[k])
                     /\ owner' = owner \o
                            [i \in 1..(Len(RollbackRows(store, txn[k])) - Len(store))
                                |-> reqno[w]]
                     /\ faulted' = [faulted EXCEPT ![w] = TRUE]
                     /\ UNCHANGED session
                ELSE /\ store' = CommitRows(store, txn[k])
                     /\ owner' = [i \in 1..Len(CommitRows(store, txn[k])) |->
                                    IF i <= Len(store) /\ i <= Len(owner)
                                    THEN owner[i] ELSE reqno[w]]
                     /\ session' = [session EXCEPT ![k] = << >>]
                     /\ pc' = [pc EXCEPT ![w] = "committed"]
                     /\ UNCHANGED <<faulted, exc, resp, status>>
           /\ txn' = [txn EXCEPT ![k] = << >>]
           /\ lock' = IF lock = k THEN 0 ELSE lock
    /\ UNCHANGED <<body, idx, reqno>>

\* Line 80: the success response.
ReturnSuccess(w) ==
    /\ pc[w] = "committed"
    /\ Return(w, Response(201, TrialsSaved(body[w]), ""))
    /\ UNCHANGED <<store, owner, lock, txn, session, body, idx, exc, reqno, faulted>>

\* Lines 82-84: the except block rolls the session back and returns 500.
ExceptHandler(w) ==
    /\ pc[w] = "except"
    /\ LET k == SessionKey(w)
       IN  /\ session' = [session EXCEPT ![k] = RollbackPending(@)]
           /\ txn' = [txn EXCEPT ![k] = << >>]
           /\ lock' = IF lock = k THEN 0 ELSE lock
    /\ Return(w, Response(500, 0, exc[w]))
    /\ UNCHANGED <<store, owner, body, idx, exc, reqno, faulted>>

\* The request ends: Flask-SQLAlchemy removes the scoped session when the
\* application context is torn down, and the worker is free again.
Teardown(w) ==
    /\ pc[w] = "responded"
    /\ LET k == SessionKey(w)
       IN  /\ session' = [session EXCEPT ![k] = << >>]
           /\ txn' = [txn EXCEPT ![k] = << >>]
           /\ lock' = IF lock = k THEN 0 ELSE lock
    /\ pc' = [pc EXCEPT ![w] = "idle"]
    /\ body' = [body EXCEPT ![w] = NoBody]
    /\ idx' = [idx EXCEPT ![w] = 0]
    /\ exc' = [exc EXCEPT ![w] = ""]
    /\ resp' = [resp EXCEPT ![w] = NoResponse]
    /\ reqno' = [reqno EXCEPT ![w] = 0]
    /\ faulted' = [faulted EXCEPT ![w] = FALSE]
    /\ UNCHANGED <<store, owner, status>>

\* One step of worker w, whose requests carry a body of B.
Handler(w, B) ==
    \/ \E b \in B : GetJsonAndValidate(w, b)
    \/ LoopBody(w)
    \/ FlushRow(w)
    \/ CommitTxn(w)
    \/ ReturnSuccess(w)
    \/ ExceptHandler(w)
    \/ Teardown(w)

\* Requests served one at a time, with every body of Bodies.
Next == Handler(1, Bodies)

Spec == Init /\ [][Next]_vars

\* Requests served by concurrent workers.
NextConc == \E w \in Workers : Handler(w, ConcBodies)

SpecConc == Init /\ [][NextConc]_vars

\* ------------------------------------------------------------- properties
Requests == 1..Len(status)

\* The positions of the rows request r committed, and those rows in order.
OwnedIdx(r) == {i \in 1..Len(store) : i <= Len(owner) /\ owner[i] = r}

RowsOf(r) ==
    LET S == OwnedIdx(r)
    IN  [k \in 1..Cardinality(S) |->
            store[CHOOSE i \in S : Cardinality({j \in S : j < i}) = k - 1]]

Responded(w) == pc[w] = "responded"

NonEmptyString(v) == v.t = "str" /\ v.s # ""

IsNumber(v) == v.t \in {"int", "real"}

\* The value of a JSON number, in thousandths.
NumVal(v) == IF v.t = "int" THEN 1000 * v.n ELSE v.n

SameNumber(a, b) == IsNumber(a) /\ IsNumber(b) /\ NumVal(a) = NumVal(b)

\* The value of field c, when present, has the type the data model declares.
DeclaredType(c, v) ==
    CASE ColumnType[c] = "String" -> v.t = "str"
      [] ColumnType[c] = "Float" -> IsNumber(v)
      [] ColumnType[c] = "Boolean" -> v.t = "bool"

\* A trial object of the interface: the required fields present, the optional
\* ones present or not, every present value of the declared type.
ValidTrial(e) ==
    /\ e.obj
    /\ \A c \in RequiredFields : e.f[c].t # "absent"
    /\ \A c \in Fields : e.f[c].t # "absent" => DeclaredType(c, e.f[c])

AllOptionalPresent(e) == \A c \in OptionalFields : e.f[c].t # "absent"

\* A trial object whose only defect is that some of its fields are absent.
TrialWithAbsentFields(e) ==
    /\ e.obj
    /\ \A c \in Fields : e.f[c].t # "absent" => DeclaredType(c, e.f[c])

IsTrialList(b) ==
    /\ b.shape = "object"
    /\ b.trials.t = "list"
    /\ Len(b.trials.items) >= 1

ValidSubmission(b) ==
    /\ IsTrialList(b)
    /\ NonEmptyString(b.participant_id)
    /\ \A k \in 1..Len(b.trials.items) : ValidTrial(b.trials.items[k])

\* C1: a valid submission (a non-empty participant_id, N >= 1 trial objects)
\* that meets no store fault is answered 201 with trials_saved = N, and
\* exactly N rows are new in the store, all carrying its participant_id.
C1_ValidSubmissionSaved ==
    \A w \in Workers :
        (Responded(w) /\ ValidSubmission(body[w]) /\ ~faulted[w]) =>
            /\ resp[w].status = 201
            /\ resp[w].trials_saved = Len(body[w].trials.items)
            /\ Cardinality(OwnedIdx(reqno[w])) = Len(body[w].trials.items)
            /\ \A i \in OwnedIdx(reqno[w]) :
                   store[i].participant_id = body[w].participant_id

C1_Witness ==
    \E w \in Workers :
        /\ Responded(w) /\ ValidSubmission(body[w]) /\ ~faulted[w]
        /\ resp[w] = Response(201, 2, "")
        /\ Cardinality(OwnedIdx(reqno[w])) = 2
        /\ Len(store) > 2

\* C2: a batch is persisted in full or not at all: a request that ended in
\* 500, in the loop or in the commit, has no row in the store, and the rows
\* of a running request are none or all of its trials.
C2_AllOrNothing ==
    /\ \A r \in Requests : status[r] = 500 => OwnedIdx(r) = {}
    /\ \A w \in Workers :
           pc[w] # "idle" =>
               Cardinality(OwnedIdx(reqno[w])) \in {0, TrialsSaved(body[w])}

\* The second INSERT of the batch failed after the first succeeded.
C2_Witness ==
    \E w \in Workers :
        /\ Responded(w) /\ resp[w].status = 500
        /\ exc[w] = "IntegrityError"
        /\ Len(body[w].trials.items) = 2
        /\ InsertError(NewTrial(body[w].participant_id, body[w].trials.items[1].f)) = ""
        /\ OwnedIdx(reqno[w]) = {}
        /\ Len(store) > 0

\* C3, as claimed: a batch of trial objects whose only defect is that
\* fields are absent, the required ones included, is stored, with null in
\* each absent field.
C3_AbsentFieldsStored ==
    \A w \in Workers :
        (/\ Responded(w) /\ IsTrialList(body[w]) /\ ~faulted[w]
         /\ NonEmptyString(body[w].participant_id)
         /\ \A k \in 1..Len(body[w].trials.items) :
                TrialWithAbsentFields(body[w].trials.items[k])) =>
            /\ resp[w].status = 201
            /\ Cardinality(OwnedIdx(reqno[w])) = Len(body[w].trials.items)
            /\ \A k \in 1..Len(body[w].trials.items) : \A c \in Fields :
                   body[w].trials.items[k].f[c].t = "absent" =>
                       RowsOf(reqno[w])[k][c] = JNull

\* C3, amended: an absent optional field is stored as null; a trial object
\* that lacks a required field fails the whole batch with 500 and no row.
C3_AbsentOptionalStoredRequiredRejected ==
    \A w \in Workers :
        /\ (Responded(w) /\ ValidSubmission(body[w]) /\ ~faulted[w]) =>
               /\ resp[w].status = 201
               /\ Cardinality(OwnedIdx(reqno[w])) = Len(body[w].trials.items)
               /\ \A k \in 1..Len(body[w].trials.items) : \A c \in OptionalFields :
                      body[w].trials.items[k].f[c].t = "absent" =>
                          RowsOf(reqno[w])[k][c] = JNull
        /\ (/\ Responded(w) /\ IsTrialList(body[w])
            /\ Truthy(body[w].participant_id)
            /\ \E k \in 1..Len(body[w].trials.items) :
                   /\ body[w].trials.items[k].obj
                   /\ \E c \in RequiredFields :
                          body[w].trials.items[k].f[c].t = "absent") =>
               /\ resp[w].status = 500
               /\ OwnedIdx(reqno[w]) = {}

\* A row with null optional fields is in the store, and a batch of one trial
\* without task_type has just been refused.
C3_Witness ==
    \E w \in Workers :
        /\ Responded(w) /\ resp[w] = Response(500, 0, "IntegrityError")
        /\ ~faulted[w]
        /\ body[w].trials.items = <<NoTaskType>>
        /\ OwnedIdx(reqno[w]) = {}
        /\ \E i \in 1..Len(store) :
               /\ store[i].task_type = JStr("stroop_incongruent")
               /\ \A c \in OptionalFields : store[i][c] = JNull

\* C4: a submission whose participant_id is absent or empty is answered 400
\* with the message for missing data and creates no row, whatever trials is.
C4_MissingParticipant ==
    \A w \in Workers :
        (/\ Responded(w) /\ body[w].shape = "object"
         /\ body[w].participant_id \in {Absent, JStr("")}) =>
            /\ resp[w] = Response(400, 0, MissingMessage)
            /\ OwnedIdx(reqno[w]) = {}
            /\ session[SessionKey(w)] = << >>

C4_Witness ==
    \E w \in Workers :
        /\ Responded(w) /\ body[w].participant_id = JStr("")
        /\ body[w].trials = TList(<<Full, Full>>)
        /\ resp[w].status = 400
        /\ store = << >>

\* C5: a submission whose trials is absent or an empty sequence is answered
\* 400 and creates no row, whatever participant_id is.
C5_MissingTrials ==
    \A w \in Workers :
        (/\ Responded(w) /\ body[w].shape = "object"
         /\ body[w].trials \in {TAbsent, TList(<< >>)}) =>
            /\ resp[w].status = 400
            /\ OwnedIdx(reqno[w]) = {}
            /\ session[SessionKey(w)] = << >>

C5_Witness ==
    \E w \in Workers :
        /\ Responded(w) /\ body[w].participant_id = JStr("P1")
        /\ body[w].trials = TList(<< >>)
        /\ resp[w].status = 400
        /\ Len(store) = 0

\* The rows request r of worker w must have stored: one per trial, in order.
BuiltRows(w) ==
    [k \in 1..Len(body[w].trials.items) |->
        NewTrial(body[w].participant_id, body[w].trials.items[k].f)]

\* C6: two valid submissions for different participants, handled by two
\* workers at once and met by no store fault, are both answered 201 with
\* their own count; each participant has as many rows as it submitted and
\* each batch carries its own participant_id only.
C6_ConcurrentSubmissions ==
    \A w1, w2 \in Workers :
        (/\ w1 # w2 /\ Responded(w1) /\ Responded(w2)
         /\ ValidSubmission(body[w1]) /\ ValidSubmission(body[w2])
         /\ body[w1].participant_id # body[w2].participant_id
         /\ ~faulted[w1] /\ ~faulted[w2]) =>
            /\ resp[w1] = Response(201, Len(body[w1].trials.items), "")
            /\ Cardinality(OwnedIdx(reqno[w1])) = Len(body[w1].trials.items)
            /\ \A i \in OwnedIdx(reqno[w1]) :
                   store[i].participant_id = body[w1].participant_id
            /\ Cardinality({i \in OwnedIdx(reqno[w1]) \cup OwnedIdx(reqno[w2]) :
                   store[i].participant_id = body[w1].participant_id})
                 = Len(body[w1].trials.items)

\* Both are answered, and the request that began second committed first.
C6_Witness ==
    \E w1, w2 \in Workers :
        /\ w1 # w2 /\ Responded(w1) /\ Responded(w2)
        /\ ValidSubmission(body[w1]) /\ ValidSubmission(body[w2])
        /\ body[w1].participant_id # body[w2].participant_id
        /\ resp[w1].status = 201 /\ resp[w2].status = 201
        /\ reqno[w1] < reqno[w2]
        /\ Len(body[w1].trials.items) = 2
        /\ Len(store) > 2 /\ owner[1] = reqno[w2]

\* C7: the store is append-only: no step removes a committed row or changes
\* one of its fields.
C7_AppendOnly ==
    [][/\ Len(store') >= Len(store)
       /\ \A i \in 1..Len(store) : store'[i] = store[i]]_vars

\* Two rows are in the store, and a request that began after the request
\* that committed them has failed in its flush and been rolled back.
C7_Witness ==
    /\ Len(store) = 2
    /\ \E w \in Workers :
           /\ Responded(w) /\ resp[w] = Response(500, 0, "IntegrityError")
           /\ owner[1] < reqno[w]

\* The request of worker w failed in a way other than a missing field.
OtherFailure(w) ==
    \/ body[w].shape # "object"
    \/ /\ Truthy(body[w].participant_id)
       /\ TruthyTrials(body[w].trials)
       /\ \/ body[w].trials.t # "list"
          \/ \E k \in 1..Len(body[w].trials.items) : ~body[w].trials.items[k].obj
    \/ faulted[w]
    \/ exc[w] # ""

\* C8: every request gets one response, with status 201, 400 or 500; no
\* exception leaves the handler; a missing top-level field gives 400; any
\* other failure gives 500, with the session rolled back.
C8_EveryFailureHandled ==
    /\ \A r \in Requests :
           /\ status[r] \in {0, 201, 400, 500}
           /\ status[r] = 0 =>
                  \E w \in Workers : reqno[w] = r /\ pc[w] \notin {"idle", "responded"}
    /\ \A w \in Workers :
           Responded(w) =>
               /\ resp[w].status \in {201, 400, 500}
               /\ status[reqno[w]] = resp[w].status
               /\ (/\ body[w].shape = "object"
                   /\ (body[w].participant_id = Absent \/ body[w].trials = TAbsent)) =>
                      resp[w] = Response(400, 0, MissingMessage)
               /\ OtherFailure(w) =>
                      /\ resp[w].status = 500
                      /\ session[SessionKey(w)] = << >>
                      /\ txn[SessionKey(w)] = << >>
                      /\ lock # SessionKey(w)

\* A request with a trial element that is not an object, after a first
\* element that was added to the session, has been answered 500.
C8_Witness ==
    \E w \in Workers :
        /\ Responded(w) /\ resp[w] = Response(500, 0, "AttributeError")
        /\ body[w].trials = TList(<<Full, NotObj>>)
        /\ session[SessionKey(w)] = << >>

\* C9: the row stored for a trial object that has all its optional fields,
\* each of the declared type, holds the submitted value in each of them, the
\* submitted task_type, stimulus_word and stimulus_color, and an id.
C9_RoundTrip ==
    \A w \in Workers :
        (Responded(w) /\ resp[w].status = 201 /\ IsTrialList(body[w])) =>
            \A k \in 1..Len(body[w].trials.items) :
                LET e == body[w].trials.items[k]
                    row == RowsOf(reqno[w])[k]
                IN  (ValidTrial(e) /\ AllOptionalPresent(e)) =>
                        /\ k <= Cardinality(OwnedIdx(reqno[w]))
                        /\ SameNumber(row.response_time, e.f.response_time)
                        /\ row.key_press = e.f.key_press
                        /\ row.was_correct = e.f.was_correct
                        /\ SameNumber(row.avg_blink_rate, e.f.avg_blink_rate)
                        /\ row.task_type = e.f.task_type
                        /\ row.stimulus_word = e.f.stimulus_word
                        /\ row.stimulus_color = e.f.stimulus_color
                        /\ row.id.t = "int" /\ row.id.n >= 1
                        /\ \A i \in 1..Len(store) :
                               store[i].id = row.id => store[i] = row

\* The scenario of the interface description and a trial with whole-number
\* floats have been stored in one batch.
C9_Witness ==
    \E w \in Workers :
        /\ Responded(w) /\ resp[w].status = 201
        /\ body[w].trials = TList(<<Full, Whole>>)
        /\ Len(store) = 2
        /\ store[1].response_time = JReal(532)
        /\ store[2].response_time = JReal(1000)

\* C10: no row leaks from one request into another: after a 400 or a 500
\* nothing is pending in the session; a successful request commits the rows
\* built from its own trials and no other; the store holds the rows of the
\* requests answered 201 and only those.
C10_NoLeak ==
    /\ \A w \in Workers :
           /\ (Responded(w) /\ resp[w].status \in {400, 500}) =>
                  session[SessionKey(w)] = << >>
           /\ (pc[w] = "committed" \/ (Responded(w) /\ resp[w].status = 201)) =>
                  /\ Cardinality(OwnedIdx(reqno[w])) = Len(body[w].trials.items)
                  /\ \A k \in 1..Cardinality(OwnedIdx(reqno[w])) :
                         /\ k <= Len(body[w].trials.items)
                         /\ RowsOf(reqno[w])[k] =
                                InsertedRow(BuiltRows(w)[k], RowsOf(reqno[w])[k].id.n)
    /\ \A i \in 1..Len(store) : i <= Len(owner) /\ owner[i] \in Requests
    /\ \A r \in Requests :
           /\ status[r] = 201 => OwnedIdx(r) # {}
           /\ OwnedIdx(r) # {} =>
                  \/ status[r] = 201
                  \/ status[r] = 0 /\ \E w \in Workers : reqno[w] = r /\ pc[w] = "committed"

\* A request failed with rows pending in its session, and the next request
\* has committed exactly its own two rows.
C10_Witness ==
    \E w \in Workers :
        /\ Responded(w) /\ resp[w].status = 201
        /\ reqno[w] = 2 /\ status[1] = 500
        /\ Len(body[w].trials.items) = 2
        /\ Len(store) = 2

====
